---- MODULE Spec2Model ----
(***************************************************************************)
(* Model of the EVM operand stack of package vm with its sync.Pool         *)
(* lifetime (Stack, newstack, returnStack) and of the batched-call RPC of  *)
(* package ethapi (internal/ethapi/api_ext.go: Multicall / DoMulticall),   *)
(* and of the jump-destination analysis of package vm (newCodeBitVec),     *)
(* whose bit patterns core/vm/analysis_test.go fixes.                      *)
(***************************************************************************)
EXTENDS Integers, Sequences, FiniteSets, TLC

VARIABLES
    st,        \* SpecStack: the Stack under test (backing array, length, array identity)
    ref,       \* SpecStack: the *uint256.Int most recently returned by a peek-style call
    hist,      \* SpecStack: the calls made so far, each with its pre-state and results
    insts,     \* SpecPool: the Stack instances constructed so far
    pool,      \* SpecPool: the instances that are in stackPool
    fpc,       \* SpecPool: where each call frame is
    held,      \* SpecPool: the instance each frame obtained from newstack (0: none)
    twin,      \* SpecPool: per frame, a newly constructed Stack given the same calls
    args,      \* SpecMulticall: the batch, one TransactionArgs per call
    mpc,       \* SpecMulticall: where the request is in Multicall / DoMulticall
    idx,       \* SpecMulticall: the loop variable i of DoMulticall
    results,   \* SpecMulticall: the results slice of DoMulticall
    state,     \* SpecMulticall: the state the calls execute against
    evm,       \* SpecMulticall: the evm variable of DoMulticall (0: nil)
    observed,  \* SpecMulticall: per executed call, the state it started from
    ret,       \* SpecMulticall: what DoMulticall returned
    mret,      \* SpecMulticall: what Multicall returned
    ctxDone,   \* SpecMulticall: whether ctx of DoMulticall is done
    wpc,       \* SpecMulticall: where the goroutine of DoMulticall is
    wseen,     \* SpecMulticall: the evm the goroutine read in `evm != nil`
    cancelled, \* SpecMulticall: the EVMs on which Cancel was called, in order
    late,      \* SpecMulticall: the EVMs that executed a call with ctx done
    code,      \* SpecBitvec: the code buffer, a sequence of bytes
    bitmap,    \* SpecBitvec: the bitvec built for code, a sequence of 32-bit words
    bpc,       \* SpecBitvec: where the analysis is
    pos,       \* SpecBitvec: the position last queried
    isData,    \* SpecBitvec: the answer to that query
    rec,       \* SpecRecycle: the Stack instance that is used, pooled and reused
    fresh,     \* SpecRecycle: a newly constructed Stack given the owner's calls
    rpc        \* SpecRecycle: where the instance is in its life

stackVars == <<st, ref, hist>>
poolVars == <<insts, pool, fpc, held, twin>>
watchVars == <<ctxDone, wpc, wseen, cancelled, late>>
callVars == <<args, mpc, idx, results, state, evm, observed, ret, mret,
              ctxDone, wpc, wseen, cancelled, late>>
bitVars == <<code, bitmap, bpc, pos, isData>>
recVars == <<rec, fresh, rpc>>
vars == <<st, ref, hist, insts, pool, fpc, held, twin,
          args, mpc, idx, results, state, evm, observed, ret, mret,
          ctxDone, wpc, wseen, cancelled, late,
          code, bitmap, bpc, pos, isData, rec, fresh, rpc>>

(***************************************************************************)
(* uint256.Int is [4]uint64, least significant limb first.  A limb is kept *)
(* as its 16 hexadecimal digits, so every bit of a value is carried.       *)
(***************************************************************************)
NumLimbs == 4

HexDigit == <<"0", "1", "2", "3", "4", "5", "6", "7",
              "8", "9", "a", "b", "c", "d", "e", "f">>

\* the limb holding the small number i (0 <= i < 256)
Limb(i) == "00000000000000" \o HexDigit[(i \div 16) + 1] \o HexDigit[(i % 16) + 1]

LimbZero == Limb(0)
LimbMax == "ffffffffffffffff"

Zero == [k \in 1..NumLimbs |-> LimbZero]
MaxUint256 == [k \in 1..NumLimbs |-> LimbMax]
\* a value all of whose limbs differ
Mixed == <<"0123456789abcdef", "fedcba9876543210", "00000000ffffffff", "8000000000000001">>
\* small distinct values, used to tell stack slots apart
Elem(i) == [k \in 1..NumLimbs |-> IF k = 1 THEN Limb(i) ELSE LimbZero]

PushVals == {Zero, MaxUint256, Mixed}

(***************************************************************************)
(* Bounds of the model.                                                    *)
(***************************************************************************)
MaxDepth == 17      \* deepest initial stack (swap16 needs 17 elements)
MaxSteps == 2       \* calls made on the stack in one behaviour
NumFrames == 2      \* concurrent call frames
MaxInst == 2        \* Stack instances the pool's New constructs
MaxPoolDepth == 2   \* deepest stack a pooled frame builds
MaxCalls == 3       \* calls in one batch

(***************************************************************************)
(* The Stack: st.data is a Go slice (pointer, len, cap).  arr is the       *)
(* backing array (Len(arr) = cap), len the slice length, ptr the identity  *)
(* of the backing array (it changes when append reallocates).              *)
(***************************************************************************)
InitCap == 16

NoRef == [ptr |-> -1, idx |-> -1]

\* &Stack{data: make([]uint256.Int, 0, 16)}
NewStack == [arr |-> [i \in 1..InitCap |-> Zero], len |-> 0, ptr |-> 0]

\* the logical contents st.data[0:len]
Data(s) == SubSeq(s.arr, 1, s.len)

\* st.len()
len(s) == s.len

\* Go's index check on st.data[i]
InRange(s, i) == i >= 0 /\ i < s.len

\* st.data[i], i zero-based and in range
At(s, i) == s.arr[i + 1]

\* result of a call: new stack, returned values in declaration order,
\* returned pointer (if any), and whether the call panicked
Result(s, r, p) == [st |-> s, ret |-> r, ref |-> p, fault |-> FALSE]
Panic(s) == [st |-> s, ret |-> <<>>, ref |-> NoRef, fault |-> TRUE]

\* st.data = st.data[:n]
Reslice(s, n) == [s EXCEPT !.len = n]

\* append(st.data, d): in place when len < cap, else a new array of twice
\* the capacity that holds a copy of the elements
append(s, d) ==
    IF s.len < Len(s.arr)
    THEN [s EXCEPT !.arr[s.len + 1] = d, !.len = s.len + 1]
    ELSE [arr |-> [i \in 1..(2 * Len(s.arr)) |->
                      IF i <= s.len THEN s.arr[i]
                      ELSE IF i = s.len + 1 THEN d ELSE Zero],
          len |-> s.len + 1,
          ptr |-> s.ptr + 1]

\* a push that keeps only the low 64-bit limb of the operand
pushLowLimb(s, d) ==
    Result(append(s, [k \in 1..NumLimbs |-> IF k = 1 THEN d[k] ELSE LimbZero]),
           <<>>, NoRef)

push(s, d) == Result(append(s, d), <<>>, NoRef)

\* a pop that reads the slot above the top
popAbove(s) ==
    IF ~InRange(s, s.len - 1) THEN Panic(s)
    ELSE Result(Reslice(s, s.len - 1),
                <<IF s.len < Len(s.arr) THEN s.arr[s.len + 1] ELSE At(s, s.len - 1)>>,
                NoRef)

pop(s) ==
    IF ~InRange(s, s.len - 1) THEN Panic(s)
    ELSE Result(Reslice(s, s.len - 1), <<At(s, s.len - 1)>>, NoRef)

pop2(s) ==
    IF ~InRange(s, s.len - 2) THEN Panic(s)
    ELSE Result(Reslice(s, s.len - 2),
                <<At(s, s.len - 1), At(s, s.len - 2)>>, NoRef)

\* a pop3 that returns the deepest of the three first
pop3DeepestFirst(s) ==
    IF ~InRange(s, s.len - 3) THEN Panic(s)
    ELSE Result(Reslice(s, s.len - 3),
                <<At(s, s.len - 3), At(s, s.len - 2), At(s, s.len - 1)>>, NoRef)

pop3(s) ==
    IF ~InRange(s, s.len - 3) THEN Panic(s)
    ELSE Result(Reslice(s, s.len - 3),
                <<At(s, s.len - 1), At(s, s.len - 2), At(s, s.len - 3)>>, NoRef)

pop4(s) ==
    IF ~InRange(s, s.len - 4) THEN Panic(s)
    ELSE Result(Reslice(s, s.len - 4),
                <<At(s, s.len - 1), At(s, s.len - 2), At(s, s.len - 3),
                  At(s, s.len - 4)>>, NoRef)

\* &st.data[i]
AddrOf(s, i) == [ptr |-> s.ptr, idx |-> i]

\* a popPeek whose pointer is to the popped slot
popPeekPopped(s) ==
    IF ~InRange(s, s.len - 2) THEN Panic(s)
    ELSE Result(Reslice(s, s.len - 1),
                <<At(s, s.len - 1)>>, AddrOf(s, s.len - 1))

popPeek(s) ==
    IF ~InRange(s, s.len - 2) THEN Panic(s)
    ELSE Result(Reslice(s, s.len - 1),
                <<At(s, s.len - 1)>>, AddrOf(s, s.len - 2))

pop2Peek(s) ==
    IF ~InRange(s, s.len - 3) THEN Panic(s)
    ELSE Result(Reslice(s, s.len - 2),
                <<At(s, s.len - 1), At(s, s.len - 2)>>, AddrOf(s, s.len - 3))

pop3Peek(s) ==
    IF ~InRange(s, s.len - 4) THEN Panic(s)
    ELSE Result(Reslice(s, s.len - 3),
                <<At(s, s.len - 1), At(s, s.len - 2), At(s, s.len - 3)>>,
                AddrOf(s, s.len - 4))

pop5Peek(s) ==
    IF ~InRange(s, s.len - 6) THEN Panic(s)
    ELSE Result(Reslice(s, s.len - 5),
                <<At(s, s.len - 1), At(s, s.len - 2), At(s, s.len - 3),
                  At(s, s.len - 4), At(s, s.len - 5)>>,
                AddrOf(s, s.len - 6))

\* a pop6Peek that reads its first value from the slot above the top
pop6PeekAbove(s) ==
    IF ~InRange(s, s.len - 7) THEN Panic(s)
    ELSE Result(Reslice(s, s.len - 6),
                <<IF s.len < Len(s.arr) THEN s.arr[s.len + 1] ELSE At(s, s.len - 1),
                  At(s, s.len - 2), At(s, s.len - 3),
                  At(s, s.len - 4), At(s, s.len - 5), At(s, s.len - 6)>>,
                AddrOf(s, s.len - 7))

pop6Peek(s) ==
    IF ~InRange(s, s.len - 7) THEN Panic(s)
    ELSE Result(Reslice(s, s.len - 6),
                <<At(s, s.len - 1), At(s, s.len - 2), At(s, s.len - 3),
                  At(s, s.len - 4), At(s, s.len - 5), At(s, s.len - 6)>>,
                AddrOf(s, s.len - 7))

\* a swap that assigns one way only: tmp[0] = tmp[b]
SwapSliceOneWay(s, a, b) ==
    LET low == s.len - a
    IN  IF low < 0 \/ low > s.len \/ b >= s.len - low THEN Panic(s)
        ELSE Result([s EXCEPT !.arr[low + 1] = s.arr[low + b + 1]],
                    <<>>, NoRef)

\* tmp := st.data[st.len()-a:]; tmp[0], tmp[b] = tmp[b], tmp[0]
SwapSlice(s, a, b) ==
    LET low == s.len - a
    IN  IF low < 0 \/ low > s.len \/ b >= s.len - low THEN Panic(s)
        ELSE Result([s EXCEPT !.arr[low + 1] = s.arr[low + b + 1],
                              !.arr[low + b + 1] = s.arr[low + 1]],
                    <<>>, NoRef)

swap1(s) == SwapSlice(s, 2, 1)
swap2(s) == SwapSlice(s, 3, 2)
swap3(s) == SwapSlice(s, 4, 3)
swap4(s) == SwapSlice(s, 5, 4)
swap5(s) == SwapSlice(s, 6, 5)
swap6(s) == SwapSlice(s, 7, 6)
swap7(s) == SwapSlice(s, 8, 7)
swap8(s) == SwapSlice(s, 9, 8)
swap9(s) == SwapSlice(s, 10, 9)
swap10(s) == SwapSlice(s, 11, 10)
swap11(s) == SwapSlice(s, 12, 11)
swap12(s) == SwapSlice(s, 13, 12)
\* a swap13 that exchanges the top with the element 12 below it
swap13Short(s) == SwapSlice(s, 13, 12)

swap13(s) == SwapSlice(s, 14, 13)
swap14(s) == SwapSlice(s, 15, 14)
swap15(s) == SwapSlice(s, 16, 15)
swap16(s) == SwapSlice(s, 17, 16)

\* the swap the caller selects for SWAPn
swapN(s, n) ==
    CASE n = 1 -> swap1(s)   [] n = 2 -> swap2(s)   [] n = 3 -> swap3(s)
      [] n = 4 -> swap4(s)   [] n = 5 -> swap5(s)   [] n = 6 -> swap6(s)
      [] n = 7 -> swap7(s)   [] n = 8 -> swap8(s)   [] n = 9 -> swap9(s)
      [] n = 10 -> swap10(s) [] n = 11 -> swap11(s) [] n = 12 -> swap12(s)
      [] n = 13 -> swap13(s) [] n = 14 -> swap14(s) [] n = 15 -> swap15(s)
      [] n = 16 -> swap16(s)

\* a dup that copies the element one deeper than asked
dupBelow(s, n) ==
    IF ~InRange(s, s.len - n - 1) THEN Panic(s)
    ELSE push(s, At(s, s.len - n - 1))

\* a dup whose index is checked against the capacity, not the length
dupCapChecked(s, n) ==
    IF s.len - n < 0 \/ s.len - n >= Len(s.arr) THEN Panic(s)
    ELSE push(s, At(s, s.len - n))

dup(s, n) ==
    IF ~InRange(s, s.len - n) THEN Panic(s)
    ELSE push(s, At(s, s.len - n))

peek(s) ==
    IF ~InRange(s, s.len - 1) THEN Panic(s)
    ELSE Result(s, <<>>, AddrOf(s, s.len - 1))

Back(s, n) ==
    IF ~InRange(s, s.len - n - 1) THEN Panic(s)
    ELSE Result(s, <<>>, AddrOf(s, s.len - n - 1))

\* *p for a pointer into the current backing array
Deref(s, p) == s.arr[p.idx + 1]

\* *p = v: the store reaches the stack only while p points into the array
\* the slice still uses
Store(s, p, v) ==
    IF p.ptr = s.ptr THEN [s EXCEPT !.arr[p.idx + 1] = v] ELSE s

(***************************************************************************)
(* SpecStack: one Stack, owned by one call frame, on which the interpreter *)
(* makes up to MaxSteps calls.  The stack starts with 0..MaxDepth distinct *)
(* elements, as left by that many pushes, and with storage beyond its      *)
(* length either untouched or holding values popped earlier.               *)
(***************************************************************************)
\* the request is not part of this specification
CallsIdle ==
    /\ args = <<>> /\ mpc = "idle" /\ idx = 0 /\ results = <<>> /\ state = <<>>
    /\ evm = 0 /\ observed = <<>> /\ ret = <<>> /\ mret = <<>>
    /\ ctxDone = FALSE /\ wpc = "none" /\ wseen = 0 /\ cancelled = <<>>
    /\ late = {}

\* no code is analysed in this specification
BitvecIdle ==
    code = <<>> /\ bitmap = <<>> /\ bpc = "idle" /\ pos = 0 /\ isData = FALSE

\* no instance is followed through its reuse in this specification
RecycleIdle == rec = <<>> /\ fresh = <<>> /\ rpc = "idle"

RECURSIVE CapFor(_, _)
CapFor(c, n) == IF n <= c THEN c ELSE CapFor(2 * c, n)

RECURSIVE Growths(_, _)
Growths(c, n) == IF n <= c THEN 0 ELSE 1 + Growths(2 * c, n)

StackOf(depth, garbage) ==
    [arr |-> [i \in 1..CapFor(InitCap, depth) |->
                 IF i <= depth THEN Elem(i) ELSE garbage],
     len |-> depth,
     ptr |-> Growths(InitCap, depth)]

InitStack ==
    /\ \E depth \in 0..MaxDepth, garbage \in {Zero, MaxUint256} :
          st = StackOf(depth, garbage)
    /\ ref = NoRef
    /\ hist = <<>>
    /\ insts = <<>> /\ pool = {} /\ fpc = <<>> /\ held = <<>>
    /\ twin = <<>>
    /\ CallsIdle
    /\ BitvecIdle
    /\ RecycleIdle

Last == hist[Len(hist)]

\* a panic ends the frame: no call follows it
Running == Len(hist) < MaxSteps /\ \A k \in 1..Len(hist) : ~hist[k].fault

\* the frame makes the call `op` (argument n, operand v) with result r
Call(op, n, v, r) ==
    /\ Running
    /\ st' = r.st
    /\ ref' = IF r.ref # NoRef THEN r.ref ELSE ref
    /\ hist' = Append(hist, [op |-> op, n |-> n, v |-> v, pre |-> Data(st),
                             ret |-> r.ret, ref |-> r.ref, fault |-> r.fault,
                             ptr |-> r.st.ptr])
    /\ UNCHANGED <<poolVars, callVars, bitVars, recVars>>

Push == \E v \in PushVals : Call("push", 0, v, push(st, v))
Pop == Call("pop", 1, Zero, pop(st))
Pop2 == Call("pop", 2, Zero, pop2(st))
Pop3 == Call("pop", 3, Zero, pop3(st))
Pop4 == Call("pop", 4, Zero, pop4(st))
PopPeek == Call("popPeek", 1, Zero, popPeek(st))
Pop2Peek == Call("popPeek", 2, Zero, pop2Peek(st))
Pop3Peek == Call("popPeek", 3, Zero, pop3Peek(st))
Pop5Peek == Call("popPeek", 5, Zero, pop5Peek(st))
Pop6Peek == Call("popPeek", 6, Zero, pop6Peek(st))
Swap == \E n \in 1..16 : Call("swap", n, Zero, swapN(st, n))
Dup == \E n \in 0..(st.len + 1) : Call("dup", n, Zero, dup(st, n))
Peek == Call("peek", 0, Zero, peek(st))
BackCall == \E n \in 0..st.len : Call("Back", n, Zero, Back(st, n))

\* the caller writes its result through the pointer it was handed
StoreRef ==
    /\ ref # NoRef
    /\ \E v \in PushVals :
          Call("store", 0, v, Result(Store(st, ref, v), <<>>, NoRef))

NextStack ==
    \/ Push \/ Pop \/ Pop2 \/ Pop3 \/ Pop4
    \/ PopPeek \/ Pop2Peek \/ Pop3Peek \/ Pop5Peek \/ Pop6Peek
    \/ Swap \/ Dup \/ Peek \/ BackCall \/ StoreRef

SpecStack == InitStack /\ [][NextStack]_vars

(***************************************************************************)
(* SpecPool: NumFrames call frames run concurrently.  Each obtains a Stack *)
(* with newstack, makes depth-respecting calls on it, and gives it back    *)
(* with returnStack, whose two statements other frames may interleave      *)
(* with.  stackPool is a sync.Pool: Get removes and returns any pooled     *)
(* instance, or calls New.                                                 *)
(***************************************************************************)
PeekArities == {1, 2, 3, 5, 6}

Frames == 1..NumFrames

\* the frames push one non-zero value, so that what the storage of a used
\* instance holds differs from the zeroes of a newly constructed one
PoolVals == {MaxUint256}

\* stackPool.Get() taking the pooled instance i: it leaves the pool
PoolGetKeep(p, i) == p

PoolGet(p, i) == p \ {i}

\* stackPool.Put(s)
PoolPut(p, i) == p \cup {i}

\* s.data = s.data[:0]
returnStackKeepLen(s) == s

returnStackReset(s) == Reslice(s, 0)

\* the calls a frame makes: c.op, with argument c.n and operand c.v
Calls ==
    [op : {"push"}, n : {0}, v : PoolVals]
      \cup [op : {"pop"}, n : {1, 2, 3, 4}, v : {Zero}]
      \cup [op : {"popPeek"}, n : PeekArities, v : {Zero}]
      \cup [op : {"swap"}, n : 1..16, v : {Zero}]
      \cup [op : {"dup", "Back"}, n : 0..MaxPoolDepth, v : {Zero}]
      \cup [op : {"peek", "len"}, n : {0}, v : {Zero}]

Apply(s, c) ==
    CASE c.op = "push" -> push(s, c.v)
      [] c.op = "pop" /\ c.n = 1 -> pop(s)
      [] c.op = "pop" /\ c.n = 2 -> pop2(s)
      [] c.op = "pop" /\ c.n = 3 -> pop3(s)
      [] c.op = "pop" /\ c.n = 4 -> pop4(s)
      [] c.op = "popPeek" /\ c.n = 1 -> popPeek(s)
      [] c.op = "popPeek" /\ c.n = 2 -> pop2Peek(s)
      [] c.op = "popPeek" /\ c.n = 3 -> pop3Peek(s)
      [] c.op = "popPeek" /\ c.n = 5 -> pop5Peek(s)
      [] c.op = "popPeek" /\ c.n = 6 -> pop6Peek(s)
      [] c.op = "swap" -> swapN(s, c.n)
      [] c.op = "dup" -> dup(s, c.n)
      [] c.op = "peek" -> peek(s)
      [] c.op = "Back" -> Back(s, c.n)
      [] c.op = "len" -> Result(s, <<len(s)>>, NoRef)

\* what the caller sees of a call's result: the returned values, the slot a
\* returned pointer designates with the value it holds, and the length
Seen(r) ==
    [ret |-> r.ret,
     idx |-> r.ref.idx,
     val |-> IF r.ref = NoRef THEN <<>> ELSE <<Deref(r.st, r.ref)>>,
     len |-> len(r.st),
     fault |-> r.fault]

InitPool ==
    /\ insts = <<>>
    /\ pool = {}
    /\ fpc = [f \in Frames |-> "idle"]
    /\ held = [f \in Frames |-> 0]
    /\ twin = [f \in Frames |-> NewStack]
    /\ st = NewStack /\ ref = NoRef /\ hist = <<>>
    /\ CallsIdle
    /\ BitvecIdle
    /\ RecycleIdle

\* newstack() returning a pooled instance
AcquirePooled(f) ==
    /\ fpc[f] = "idle"
    /\ \E i \in pool :
          /\ pool' = PoolGet(pool, i)
          /\ held' = [held EXCEPT ![f] = i]
    /\ fpc' = [fpc EXCEPT ![f] = "new"]
    /\ twin' = [twin EXCEPT ![f] = NewStack]
    /\ UNCHANGED <<insts, stackVars, callVars, bitVars, recVars>>

\* newstack() when Get finds nothing to hand out: stackPool.New
AcquireNew(f) ==
    /\ fpc[f] = "idle"
    /\ Len(insts) < MaxInst
    /\ insts' = Append(insts, NewStack)
    /\ held' = [held EXCEPT ![f] = Len(insts) + 1]
    /\ fpc' = [fpc EXCEPT ![f] = "new"]
    /\ twin' = [twin EXCEPT ![f] = NewStack]
    /\ UNCHANGED <<pool, stackVars, callVars, bitVars, recVars>>

\* a call that respects the depth of the frame's stack
FrameCall(f) ==
    /\ fpc[f] \in {"new", "run"}
    /\ \E c \in Calls :
          LET r == Apply(insts[held[f]], c)
              t == Apply(twin[f], c)
          IN  /\ ~r.fault
              /\ r.st.len <= MaxPoolDepth
              /\ insts' = [insts EXCEPT ![held[f]] = r.st]
              /\ twin' = [twin EXCEPT ![f] = t.st]
    /\ fpc' = [fpc EXCEPT ![f] = "run"]
    /\ UNCHANGED <<pool, held, stackVars, callVars, bitVars, recVars>>

\* returnStack(s), first statement: s.data = s.data[:0]
ReleaseReset(f) ==
    /\ fpc[f] \in {"new", "run"}
    /\ insts' = [insts EXCEPT ![held[f]] = returnStackReset(insts[held[f]])]
    /\ fpc' = [fpc EXCEPT ![f] = "put"]
    /\ twin' = [twin EXCEPT ![f] = NewStack]
    /\ UNCHANGED <<pool, held, stackVars, callVars, bitVars, recVars>>

\* returnStack(s), second statement: stackPool.Put(s)
ReleasePut(f) ==
    /\ fpc[f] = "put"
    /\ pool' = PoolPut(pool, held[f])
    /\ held' = [held EXCEPT ![f] = 0]
    /\ fpc' = [fpc EXCEPT ![f] = "idle"]
    /\ UNCHANGED <<insts, twin, stackVars, callVars, bitVars, recVars>>

NextPool ==
    \E f \in Frames :
        \/ AcquirePooled(f)
        \/ AcquireNew(f)
        \/ FrameCall(f)
        \/ ReleaseReset(f)
        \/ ReleasePut(f)

SpecPool == InitPool /\ [][NextPool]_vars

(***************************************************************************)
(* SpecRecycle: one Stack instance through its reuse.  A first owner gets  *)
(* it newly constructed, pushes up to MaxDepth values (which may grow the  *)
(* backing array) and gives it back; returnStack leaves the values in the  *)
(* storage.  The next owner gets it from the pool, pushes up to MaxDepth   *)
(* values of its own and makes one more call of any kind.  fresh is a      *)
(* newly constructed Stack that is given the calls of the second owner.    *)
(***************************************************************************)
\* the value the first owner pushes into slot k
PrevElem(k) == Elem(100 + k)

\* the calls an owner makes, dup and Back at every distance from the top
DeepCalls ==
    [op : {"push"}, n : {0}, v : PushVals]
      \cup [op : {"pop"}, n : {1, 2, 3, 4}, v : {Zero}]
      \cup [op : {"popPeek"}, n : PeekArities, v : {Zero}]
      \cup [op : {"swap"}, n : 1..16, v : {Zero}]
      \cup [op : {"dup", "Back"}, n : 0..(MaxDepth + 1), v : {Zero}]
      \cup [op : {"peek", "len"}, n : {0}, v : {Zero}]

\* newstack() by the first owner: stackPool.New
InitRecycle ==
    /\ rec = NewStack
    /\ fresh = NewStack
    /\ rpc = "previous"
    /\ st = NewStack /\ ref = NoRef /\ hist = <<>>
    /\ insts = <<>> /\ pool = {} /\ fpc = <<>> /\ held = <<>> /\ twin = <<>>
    /\ CallsIdle
    /\ BitvecIdle

\* the first owner pushes
PrevPush ==
    /\ rpc = "previous"
    /\ rec.len < MaxDepth
    /\ rec' = push(rec, PrevElem(rec.len + 1)).st
    /\ UNCHANGED <<fresh, rpc, stackVars, poolVars, callVars, bitVars>>

\* returnStack(s) by the first owner: s.data = s.data[:0]; stackPool.Put(s)
Recycle ==
    /\ rpc = "previous"
    /\ rec' = returnStackReset(rec)
    /\ rpc' = "pooled"
    /\ UNCHANGED <<fresh, stackVars, poolVars, callVars, bitVars>>

\* newstack() by the next owner: stackPool.Get() returns the instance
Reacquire ==
    /\ rpc = "pooled"
    /\ rpc' = "new"
    /\ fresh' = NewStack
    /\ UNCHANGED <<rec, stackVars, poolVars, callVars, bitVars>>

\* the owner pushes
OwnerPush ==
    /\ rpc \in {"new", "fill"}
    /\ rec.len < MaxDepth
    /\ rec' = push(rec, Elem(rec.len + 1)).st
    /\ fresh' = push(fresh, Elem(rec.len + 1)).st
    /\ rpc' = "fill"
    /\ UNCHANGED <<stackVars, poolVars, callVars, bitVars>>

\* the owner makes a call that respects the depth of its stack
OwnerCall ==
    /\ rpc \in {"new", "fill"}
    /\ \E c \in DeepCalls :
          /\ ~Apply(rec, c).fault
          /\ rec' = Apply(rec, c).st
          /\ fresh' = Apply(fresh, c).st
    /\ rpc' = "run"
    /\ UNCHANGED <<stackVars, poolVars, callVars, bitVars>>

NextRecycle == PrevPush \/ Recycle \/ Reacquire \/ OwnerPush \/ OwnerCall

SpecRecycle == InitRecycle /\ [][NextRecycle]_vars

(***************************************************************************)
(* SpecMulticall: one Multicall request.  What the backend does with a     *)
(* call is an input: each argument carries the outcome its execution has.  *)
(*   ok            executes and succeeds                                   *)
(*   revertReason  execution reverts with an ABI-encoded Error(string)     *)
(*   revertRaw     execution fails with return data that does not decode   *)
(*   errToMessage  arg.ToMessage returns an error                          *)
(*   errGetEVM     b.GetEVM returns an error                               *)
(*   errApply      core.ApplyMessage returns an error                      *)
(*   errVM         the state error hook vmError() returns an error         *)
(*   noTo          the message has no recipient: msg.To() is nil           *)
(***************************************************************************)
Kinds == {"ok", "revertReason", "revertRaw",
          "errToMessage", "errGetEVM", "errApply", "errVM", "noTo"}

NoErr == "nil"

\* a []ExecutionResultArgs: nil, or a slice with elements
NilSlice == [isNil |-> TRUE, elems |-> <<>>]
Slice(e) == [isNil |-> FALSE, elems |-> e]

\* the zero ExecutionResultArgs
ZeroResult ==
    [GasUsed |-> 0, MinGasLimit |-> 0, Output |-> <<>>, AccessList |-> <<>>,
     Logs |-> <<>>, Err |-> NoErr]

\* the state after StateAndHeaderByNumberOrHash and overrides.Apply: the
\* changes made since the last Commit, the committed ones, the logs, the
\* refund counter
FreshState == [dirty |-> <<>>, committed |-> <<>>, logs |-> <<>>, refund |-> 0]

\* core.ApplyMessage on call i: the ExecutionResult it returns
Execute(a, i) ==
    [UsedGas |-> 21000 + i,
     ReturnData |-> CASE a.kind = "revertReason" -> <<"Error(string)", "reason", i>>
                      [] a.kind = "revertRaw" -> <<"raw", i>>
                      [] OTHER -> <<"ret", i>>,
     Err |-> CASE a.kind = "revertReason" -> "execution reverted"
               [] a.kind = "revertRaw" -> "out of gas"
               [] OTHER -> NoErr]

\* core.ApplyMessage on call i: what it does to the state.  A message that
\* is applied changes the state (nonce, balances, storage), also when its
\* execution fails; one that ApplyMessage rejects changes nothing
Applied(s, a, i) ==
    IF a.kind = "errApply" THEN s
    ELSE [s EXCEPT !.dirty = Append(@, i),
                   !.logs = IF a.kind = "ok" THEN Append(@, i) ELSE @]

\* state.Commit(false)
Commit(s) == [s EXCEPT !.committed = @ \o s.dirty, !.dirty = <<>>]

\* arg.ToMessage(...): its error
ToMessageErr(a) == IF a.kind = "errToMessage" THEN "ToMessage failed" ELSE NoErr

\* logger.NewAccessListTracer(nil, msg.From(), *msg.To(), ...): the
\* dereference of a nil recipient panics
TracerPanics(a) == a.kind = "noTo"

\* b.GetEVM(...): its error
GetEVMErr(a) == IF a.kind = "errGetEVM" THEN "GetEVM failed" ELSE NoErr

\* an Apply step that also returns on result.Err
ApplyErrOnRevert(a) ==
    IF a.kind = "errVM" THEN "state error"
    ELSE IF a.kind = "errApply" THEN "ApplyMessage failed"
    ELSE IF a.kind \in {"revertReason", "revertRaw"} THEN "execution failed"
    ELSE NoErr

\* the error DoMulticall returns after core.ApplyMessage: vmError() first,
\* then the error of ApplyMessage itself
ApplyErr(a) ==
    IF a.kind = "errVM" THEN "state error"
    ELSE IF a.kind = "errApply" THEN "ApplyMessage failed"
    ELSE NoErr

\* the record DoMulticall stores for call i
Record(a, i, s) ==
    LET result == Execute(a, i)
    IN  [GasUsed |-> result.UsedGas,
         MinGasLimit |-> result.UsedGas + s.refund,
         Output |-> result.ReturnData,
         AccessList |-> <<i>>,
         Logs |-> s.logs,
         Err |-> result.Err]

\* a commit condition that is one call short
ShouldCommitShort(i, n) == i < n - 2

\* if i < len(args)-1
ShouldCommit(i, n) == i < n - 1

\* abi.UnpackRevert(output): the reason, and whether unpacking succeeded
UnpackRevert(output) ==
    IF Len(output) >= 2 /\ output[1] = "Error(string)"
    THEN [ok |-> TRUE, reason |-> output[2]]
    ELSE [ok |-> FALSE, reason |-> ""]

NoFirstErr == [call |-> 0, err |-> NoErr, reason |-> ""]

\* the loop of Multicall over results[from..]: firstErr at its end
RECURSIVE FirstErrLoop(_, _, _)
FirstErrLoop(rs, from, firstErr) ==
    IF from > Len(rs) THEN firstErr
    ELSE LET result == rs[from]
             unpacked == UnpackRevert(result.Output)
         IN  IF result.Err # NoErr
             THEN FirstErrLoop(rs, from + 1,
                     [call |-> (from - 1) + 1,
                      err |-> result.Err,
                      reason |-> IF unpacked.ok THEN unpacked.reason ELSE ""])
             ELSE FirstErrLoop(rs, from + 1, firstErr)

Batches ==
    UNION {[1..n -> [kind : Kinds]] : n \in 0..MaxCalls}

InitMulticall ==
    /\ args \in Batches
    /\ mpc = "start"
    /\ idx = 0
    /\ results = NilSlice
    /\ state = FreshState
    /\ evm = 0
    /\ observed = <<>>
    /\ ret = [results |-> NilSlice, err |-> NoErr]
    /\ mret = [results |-> NilSlice, err |-> NoFirstErr, failed |-> NoErr]
    /\ ctxDone = FALSE
    /\ wpc = "none"
    /\ wseen = 0
    /\ cancelled = <<>>
    /\ late = {}
    /\ st = NewStack /\ ref = NoRef /\ hist = <<>>
    /\ insts = <<>> /\ pool = {} /\ fpc = <<>> /\ held = <<>> /\ twin = <<>>
    /\ BitvecIdle
    /\ RecycleIdle

\* args[i] with the zero-based loop variable
Arg == args[idx + 1]

\* the deferred cancel(): ctx is done once DoMulticall has returned
cancel(done) == TRUE

\* return nil, err
ReturnErr(e) ==
    /\ ret' = [results |-> NilSlice, err |-> e]
    /\ mpc' = "returned"

\* StateAndHeaderByNumberOrHash returns no state (with an error or with
\* none) or overrides.Apply fails: return nil, err
StartFail ==
    /\ mpc = "start"
    /\ \E e \in {NoErr, "state unavailable", "override failed"} : ReturnErr(e)
    /\ UNCHANGED <<args, idx, results, state, evm, observed, mret, watchVars,
                   stackVars, poolVars, bitVars, recVars>>

\* the state is loaded; ctx is derived with WithTimeout or WithCancel, the
\* goroutine is started, results := make([]ExecutionResultArgs, len(args))
Start ==
    /\ mpc = "start"
    /\ results' = Slice([k \in 1..Len(args) |-> ZeroResult])
    /\ idx' = 0
    /\ mpc' = "loop"
    /\ wpc' = "wait"
    /\ UNCHANGED <<args, state, evm, observed, ret, mret,
                   ctxDone, wseen, cancelled, late, stackVars, poolVars, bitVars, recVars>>

\* for i, arg := range args: msg, err := arg.ToMessage(...)
ToMessage ==
    /\ mpc = "loop"
    /\ idx < Len(args)
    /\ IF ToMessageErr(Arg) # NoErr
       THEN ReturnErr(ToMessageErr(Arg))
       ELSE mpc' = "getEVM" /\ UNCHANGED ret
    /\ ctxDone' = IF ToMessageErr(Arg) # NoErr THEN cancel(ctxDone) ELSE ctxDone
    /\ UNCHANGED <<args, idx, results, state, evm, observed, mret,
                   wpc, wseen, cancelled, late, stackVars, poolVars, bitVars, recVars>>

\* tracer := logger.NewAccessListTracer(..., *msg.To(), ...) and
\* evm, vmError, err = b.GetEVM(...).  A nil recipient panics before GetEVM
\* is called and the deferred cancel runs while the panic unwinds.  evm is
\* assigned what GetEVM returns, with an error a nil EVM or one it built.
GetEVM ==
    /\ mpc = "getEVM"
    /\ IF TracerPanics(Arg)
       THEN /\ mpc' = "panicked"
            /\ UNCHANGED <<evm, ret>>
       ELSE IF GetEVMErr(Arg) # NoErr
       THEN /\ \E e \in {0, idx + 1} : evm' = e
            /\ ReturnErr(GetEVMErr(Arg))
       ELSE /\ evm' = idx + 1
            /\ mpc' = "apply"
            /\ UNCHANGED ret
    /\ ctxDone' = IF TracerPanics(Arg) \/ GetEVMErr(Arg) # NoErr
                  THEN cancel(ctxDone) ELSE ctxDone
    /\ UNCHANGED <<args, idx, results, state, observed, mret,
                   wpc, wseen, cancelled, late, stackVars, poolVars, bitVars, recVars>>

\* result, err := core.ApplyMessage(evm, msg, gp), the two error checks,
\* and results[i] = ExecutionResultArgs{...}
ApplyMessage ==
    /\ mpc = "apply"
    /\ observed' = Append(observed, [call |-> idx, state |-> state])
    /\ state' = Applied(state, Arg, idx)
    /\ IF ApplyErr(Arg) # NoErr
       THEN /\ ReturnErr(ApplyErr(Arg))
            /\ UNCHANGED results
       ELSE /\ results' = [results EXCEPT !.elems[idx + 1] = Record(Arg, idx, state')]
            /\ mpc' = "commit"
            /\ UNCHANGED ret
    /\ late' = IF ctxDone THEN late \cup {evm} ELSE late
    /\ ctxDone' = IF ApplyErr(Arg) # NoErr THEN cancel(ctxDone) ELSE ctxDone
    /\ UNCHANGED <<args, idx, evm, mret, wpc, wseen, cancelled,
                   stackVars, poolVars, bitVars, recVars>>

\* if i < len(args)-1 { state.Commit(false) }, and the loop's i++
CommitStep ==
    /\ mpc = "commit"
    /\ state' = IF ShouldCommit(idx, Len(args)) THEN Commit(state) ELSE state
    /\ idx' = idx + 1
    /\ mpc' = "loop"
    /\ UNCHANGED <<args, results, evm, observed, ret, mret, watchVars,
                   stackVars, poolVars, bitVars, recVars>>

\* return results, nil
ReturnResults ==
    /\ mpc = "loop"
    /\ idx >= Len(args)
    /\ ret' = [results |-> results, err |-> NoErr]
    /\ mpc' = "returned"
    /\ ctxDone' = cancel(ctxDone)
    /\ UNCHANGED <<args, idx, results, state, evm, observed, mret,
                   wpc, wseen, cancelled, late, stackVars, poolVars, bitVars, recVars>>

\* Multicall after DoMulticall has returned
MulticallReturn ==
    /\ mpc = "returned"
    /\ mret' = IF ret.err # NoErr
               THEN [results |-> NilSlice, err |-> NoFirstErr, failed |-> ret.err]
               ELSE [results |-> ret.results,
                     err |-> FirstErrLoop(ret.results.elems, 1, NoFirstErr),
                     failed |-> NoErr]
    /\ mpc' = "done"
    /\ UNCHANGED <<args, idx, results, state, evm, observed, ret, watchVars,
                   stackVars, poolVars, bitVars, recVars>>

\* the timeout expires or the caller cancels the request while DoMulticall
\* is in its loop
CtxExpire ==
    /\ mpc \in {"loop", "getEVM", "apply", "commit"}
    /\ ~ctxDone
    /\ ctxDone' = TRUE
    /\ UNCHANGED <<args, mpc, idx, results, state, evm, observed, ret, mret,
                   wpc, wseen, cancelled, late, stackVars, poolVars, bitVars, recVars>>

\* the goroutine: <-ctx.Done() returns and `evm != nil` reads evm
WatcherCheck ==
    /\ wpc = "wait"
    /\ ctxDone
    /\ wseen' = evm
    /\ wpc' = IF evm # 0 THEN "cancel" ELSE "ended"
    /\ UNCHANGED <<args, mpc, idx, results, state, evm, observed, ret, mret,
                   ctxDone, cancelled, late, stackVars, poolVars, bitVars, recVars>>

\* the goroutine: evm.Cancel().  The loop assigns evm without
\* synchronisation, so the call is on the EVM the check read or on the one
\* evm holds now; on a nil evm it panics
WatcherCancel ==
    /\ wpc = "cancel"
    /\ \E target \in {wseen, evm} :
          IF target = 0
          THEN wpc' = "panicked" /\ UNCHANGED cancelled
          ELSE wpc' = "ended" /\ cancelled' = Append(cancelled, target)
    /\ UNCHANGED <<args, mpc, idx, results, state, evm, observed, ret, mret,
                   ctxDone, wseen, late, stackVars, poolVars, bitVars, recVars>>

\* the steps of DoMulticall and of Multicall
MainStep ==
    \/ StartFail \/ Start \/ ToMessage \/ GetEVM \/ ApplyMessage
    \/ CommitStep \/ ReturnResults \/ MulticallReturn

NextMulticall ==
    \/ StartFail \/ Start \/ ToMessage \/ GetEVM \/ ApplyMessage
    \/ CommitStep \/ ReturnResults \/ MulticallReturn
    \/ CtxExpire \/ WatcherCheck \/ WatcherCancel

SpecMulticall == InitMulticall /\ [][NextMulticall]_vars

\* the scheduler runs every goroutine that can take a step: the request's
\* goroutine and the one DoMulticall started.  Nothing obliges the timeout
\* to expire or the caller to cancel.
SpecMulticallFair ==
    /\ InitMulticall
    /\ [][NextMulticall]_vars
    /\ WF_vars(MainStep)
    /\ WF_vars(WatcherCheck)
    /\ WF_vars(WatcherCancel)

(***************************************************************************)
(* Properties of the stack operations (SpecStack).                         *)
(***************************************************************************)
\* the logical contents after call k
Post(k) == IF k < Len(hist) THEN hist[k + 1].pre ELSE Data(st)

\* call k is op(n) and did not panic
Did(k, op, n) == hist[k].op = op /\ hist[k].n = n /\ ~hist[k].fault

\* element j positions below the top (0 = top) of contents d
FromTop(d, j) == d[Len(d) - j]

PopNs == {2, 3, 4}

\* C1 as stated: popN (N in 2..4) removes the top N elements and returns
\* them deepest first, pop0 the deepest of the N and pop(N-1) the former top
C1_PopNDeepestFirst ==
    \A k \in 1..Len(hist) : \A n \in PopNs :
        Did(k, "pop", n) =>
            /\ Post(k) = SubSeq(hist[k].pre, 1, Len(hist[k].pre) - n)
            /\ \A j \in 1..n : hist[k].ret[j] = FromTop(hist[k].pre, n - j)

\* C1 amended: popN (N in 2..4) removes exactly the top N elements and
\* returns them top first, pop0 the former top and pop(N-1) the deepest
C1_PopNTopFirst ==
    \A k \in 1..Len(hist) : \A n \in PopNs :
        Did(k, "pop", n) =>
            /\ Len(hist[k].ret) = n
            /\ Post(k) = SubSeq(hist[k].pre, 1, Len(hist[k].pre) - n)
            /\ \A j \in 1..n : hist[k].ret[j] = FromTop(hist[k].pre, j - 1)

\* pop3 has returned three distinct values a, b, c pushed in that order
C1_Witness ==
    /\ Len(hist) >= 1
    /\ Did(Len(hist), "pop", 3)
    /\ Len(Last.pre) > 3
    /\ Last.ret = <<FromTop(Last.pre, 0), FromTop(Last.pre, 1), FromTop(Last.pre, 2)>>
    /\ Cardinality({Last.ret[1], Last.ret[2], Last.ret[3]}) = 3


\* C8: popKPeek (K in 1,2,3,5,6) shortens the stack by K and its pointer is
\* to the slot that is the top afterwards; a value stored through it before
\* the length changes is what the next peek, Back(0) or pop yields
C8_PopPeekRef ==
    \A k \in 1..Len(hist) : \A n \in PeekArities :
        Did(k, "popPeek", n) =>
            /\ Len(Post(k)) = Len(hist[k].pre) - n
            /\ Post(k) = SubSeq(hist[k].pre, 1, Len(hist[k].pre) - n)
            /\ hist[k].ref = [ptr |-> hist[k].ptr, idx |-> Len(Post(k)) - 1]
            /\ (k + 1 <= Len(hist) /\ Did(k + 1, "store", 0)) =>
                  /\ FromTop(Post(k + 1), 0) = hist[k + 1].v
                  /\ (k + 1 = Len(hist)) =>
                        /\ pop(st).ret = <<hist[k + 1].v>>
                        /\ Deref(st, peek(st).ref) = hist[k + 1].v
                        /\ Deref(st, Back(st, 0).ref) = hist[k + 1].v
                  /\ (k + 2 <= Len(hist) /\ Did(k + 2, "pop", 1)) =>
                        hist[k + 2].ret = <<hist[k + 1].v>>
                  /\ (k + 2 <= Len(hist) /\ hist[k + 2].op \in {"peek", "Back"}
                        /\ hist[k + 2].n = 0 /\ ~hist[k + 2].fault) =>
                        Post(k + 2)[hist[k + 2].ref.idx + 1] = hist[k + 1].v

\* pop3Peek, then a store through its pointer of a value the slot did not
\* hold: the stack is three shorter and its top is the stored value
C8_Witness ==
    /\ Len(hist) = 2
    /\ Did(1, "popPeek", 3)
    /\ Did(2, "store", 0)
    /\ hist[2].v # FromTop(hist[1].pre, 3)
    /\ st.len = Len(hist[1].pre) - 3
    /\ pop(st).ret = <<hist[2].v>>

\* C9: push(v) followed by pop returns v and leaves the stack with the
\* length and elements it had before the push
C9_PushPop ==
    \A k \in 1..Len(hist) :
        (k + 1 <= Len(hist) /\ Did(k, "push", 0) /\ Did(k + 1, "pop", 1)) =>
            /\ hist[k + 1].ret = <<hist[k].v>>
            /\ Post(k + 1) = hist[k].pre

\* the maximum value was pushed on a stack whose storage was full (the push
\* reallocated) and popped again
C9_Witness ==
    /\ Len(hist) = 2
    /\ Did(1, "push", 0) /\ hist[1].v = MaxUint256
    /\ Len(hist[1].pre) = InitCap
    /\ Did(2, "pop", 1)
    /\ hist[2].ret = <<MaxUint256>>

\* C10: dup(1) followed by pop leaves the stack as it was, and swapN(n)
\* twice in succession restores the original order, for every n in 1..16
C10_Inverses ==
    \A k \in 1..Len(hist) :
        /\ (k + 1 <= Len(hist) /\ Did(k, "dup", 1) /\ Did(k + 1, "pop", 1)) =>
              Post(k + 1) = hist[k].pre
        /\ \A n \in 1..16 :
              (k + 1 <= Len(hist) /\ Did(k, "swap", n) /\ Did(k + 1, "swap", n)) =>
                  Post(k + 1) = hist[k].pre

\* swap16 was applied twice to a stack whose two swapped elements differ
C10_Witness ==
    /\ Len(hist) = 2
    /\ Did(1, "swap", 16) /\ Did(2, "swap", 16)
    /\ FromTop(hist[1].pre, 0) # FromTop(hist[1].pre, 16)
    /\ hist[2].pre # hist[1].pre
    /\ Data(st) = hist[1].pre

(***************************************************************************)
(* Properties of the pool (SpecPool).                                      *)
(***************************************************************************)
\* the instance frame f holds
Mine(f) == insts[held[f]]

\* instance i has been used before: its storage holds values a previous
\* owner left
Used(i) == insts[i].arr # NewStack.arr

\* C5: no Stack instance is held by two in-flight frames at once, and an
\* instance handed out by newstack is not in the pool (so not handed out
\* again) until the frame that holds it has put it back
C5_ExclusiveOwner ==
    \A f \in Frames :
        held[f] # 0 =>
            /\ held[f] \notin pool
            /\ \A g \in Frames \ {f} : held[g] # held[f]

\* a frame has just been handed an instance that an earlier frame put back,
\* while another frame is in flight on another instance
C5_Witness ==
    \E f \in Frames :
        /\ fpc[f] = "new" /\ Used(held[f])
        /\ \E g \in Frames \ {f} :
              fpc[g] = "run" /\ held[g] # 0 /\ held[g] # held[f]

\* C6: every stack newstack returns has length zero, newly constructed or
\* recycled, and every instance in the pool has had its length reset
C6_AcquireEmpty ==
    /\ \A f \in Frames : fpc[f] = "new" => len(Mine(f)) = 0 /\ Data(Mine(f)) = <<>>
    /\ \A i \in pool : len(insts[i]) = 0

\* newstack has just returned an instance that a previous frame had filled
C6_Witness ==
    \E f \in Frames :
        /\ fpc[f] = "new"
        /\ Used(held[f])
        /\ Mine(f).arr[MaxPoolDepth] = MaxUint256
        /\ len(Mine(f)) = 0

\* C7: a recycled stack behaves as a newly constructed one: after the same
\* depth-respecting calls (push, popN, the pop-and-peek calls, swapN, dup,
\* peek, Back, len) both hold the same elements, and every further call
\* returns the same values on both, designates the same slot and value by
\* its pointer and leaves the same elements, whatever the previous owner
\* left in the storage
C7_RecycledAsFresh ==
    rpc \in {"new", "fill", "run"} =>
        /\ Data(rec) = Data(fresh)
        /\ \A c \in DeepCalls :
              /\ Seen(Apply(rec, c)) = Seen(Apply(fresh, c))
              /\ Data(Apply(rec, c).st) = Data(Apply(fresh, c).st)

\* the owner of a recycled instance has made swap15 on 16 elements; the
\* slot above the top holds a value of the previous owner, who had grown
\* the backing array, while the newly constructed one is full
C7_Witness ==
    /\ rpc = "run"
    /\ rec.len = 16
    /\ Len(rec.arr) = 2 * InitCap /\ Len(fresh.arr) = InitCap
    /\ rec.arr[16] = Elem(1) /\ rec.arr[1] = Elem(16)
    /\ rec.arr[17] = PrevElem(17)

(***************************************************************************)
(* Properties of Multicall / DoMulticall (SpecMulticall).                  *)
(***************************************************************************)
HardKinds == {"errToMessage", "errGetEVM", "errApply", "errVM"}
FailKinds == {"revertReason", "revertRaw"}

\* the one-based positions in the batch of the calls of the given kinds
Positions(kinds) == {k \in 1..Len(args) : args[k].kind \in kinds}

Lowest(S) == CHOOSE k \in S : \A m \in S : k <= m

\* the calls core.ApplyMessage was invoked for, in the order of invocation
Ran == [k \in 1..Len(observed) |-> observed[k].call]

\* the zero-based indices first..last in order
Upto(n) == [k \in 1..n |-> k - 1]

\* DoMulticall has loaded the state and returned from its loop
LoopReturned == mpc \in {"returned", "done"} /\ ~results.isNil

\* C2 as stated: when calls of a batch that ran have a failure indicator,
\* the error Multicall returns names the lowest-indexed of them, with its
\* reason, and every call's result is returned with it
C2_FirstFailure ==
    (mpc = "done" /\ ~results.isNil /\ mret.failed = NoErr
        /\ Positions(FailKinds) # {}) =>
        LET first == Lowest(Positions(FailKinds))
        IN  /\ mret.err.call = first
            /\ mret.err.err = Execute(args[first], first - 1).Err
            /\ mret.err.reason = UnpackRevert(Execute(args[first], first - 1).ReturnData).reason
            /\ ~mret.results.isNil
            /\ Len(mret.results.elems) = Len(args)

\* C3 as stated: whatever failure call i produces, the calls after it are
\* executed and DoMulticall returns one record per argument
C3_NeverAborts ==
    LoopReturned =>
        /\ ~ret.results.isNil
        /\ Len(ret.results.elems) = Len(args)
        /\ Ran = Upto(Len(args))

\* C3 amended: an execution failure recorded in the result of call i never
\* aborts the remaining calls; an error from message conversion, EVM
\* creation, message application or the state error hook in call i ends the
\* batch: no later call is executed and DoMulticall returns that error and
\* no results.  A call without a recipient ends the batch with a panic: no
\* later call is executed and DoMulticall returns nothing
C3_OnlyErrorsAbort ==
    /\ LoopReturned =>
           IF Positions(HardKinds) = {}
           THEN /\ ret.err = NoErr
                /\ ~ret.results.isNil
                /\ Len(ret.results.elems) = Len(args)
                /\ Ran = Upto(Len(args))
                /\ \A k \in 1..Len(args) :
                      ret.results.elems[k].Err = Execute(args[k], k - 1).Err
           ELSE LET j == Lowest(Positions(HardKinds))
                IN  /\ ret.err # NoErr
                    /\ ret.results.isNil
                    /\ Ran = Upto(IF args[j].kind \in {"errApply", "errVM"}
                                  THEN j ELSE j - 1)
    /\ mpc = "panicked" =>
           LET j == Lowest(Positions({"noTo"}))
           IN  /\ Ran = Upto(j - 1)
               /\ \A k \in 1..(j - 1) : args[k].kind \notin HardKinds
               /\ ret.results.isNil /\ ret.err = NoErr

\* a batch whose first call fails in execution and whose later calls were
\* executed all the same
C3_Witness ==
    /\ mpc = "returned"
    /\ Len(args) = MaxCalls
    /\ args[1].kind \in FailKinds
    /\ Ran = Upto(MaxCalls)
    /\ ~ret.results.isNil
    /\ ret.results.elems[1].Err # NoErr
    /\ ret.results.elems[MaxCalls].Err = NoErr

\* the changes of calls 0..n-1, in order
Effects(n) == Upto(n)

\* C4: the calls are executed in argument order against the one state:
\* when call i begins the changes of calls 0..i-1 are committed and nothing
\* is pending, every call started from a state holding exactly the effects
\* of the calls before it, and results[j] is the record of args[j]
C4_InOrderCommitted ==
    (mpc \in {"loop", "getEVM", "apply", "commit", "returned", "done", "panicked"}) =>
        /\ (mpc \in {"loop", "getEVM", "apply"} /\ idx < Len(args)) =>
              /\ state.committed = Effects(idx)
              /\ state.dirty = <<>>
        /\ \A k \in 1..Len(observed) :
              /\ observed[k].call = k - 1
              /\ observed[k].state.committed = Effects(k - 1)
              /\ observed[k].state.dirty = <<>>
        /\ \A j \in 1..Len(args) :
              (~results.isNil /\ (j - 1 < idx \/ (j - 1 = idx /\ mpc = "commit"))) =>
                  /\ results.elems[j].Output = Execute(args[j], j - 1).ReturnData
                  /\ results.elems[j].Err = Execute(args[j], j - 1).Err
                  /\ results.elems[j].AccessList = <<j - 1>>

\* the last call of a full batch is running on a state that holds the
\* committed effects of the calls before it
C4_Witness ==
    /\ mpc = "commit"
    /\ idx = MaxCalls - 1
    /\ Len(args) = MaxCalls
    /\ Len(observed) = MaxCalls
    /\ observed[MaxCalls].state.committed = Effects(MaxCalls - 1)
    /\ state.dirty = <<MaxCalls - 1>>


(***************************************************************************)
(* SpecBitvec: the jump-destination analysis.  newCodeBitVec(code) scans   *)
(* the code once and returns a bitvec, a slice of 32-bit words read as one *)
(* bit array indexed by code position (bit b of word w is position         *)
(* 32*w + b); a set bit marks a byte that is the immediate data of a push. *)
(* A word is kept as the set of the offsets 0..31 of its set bits.         *)
(* The implementation is not among the sources; the scan follows the       *)
(* description of Build and the bit patterns are those that TestBitvec     *)
(* demands of newCodeBitVec.                                               *)
(***************************************************************************)
MaxFill == 33       \* longest run of equal bytes in an analysed code
MaxTail == 2        \* instructions that follow the run

WordBits == 32

STOP == 0
JUMPDEST == 91
PUSH1 == 96
PUSH2 == 97
PUSH3 == 98
PUSH8 == 103
PUSH16 == 111
PUSH32 == 127

IsPush(op) == op >= PUSH1 /\ op <= PUSH32

\* the number of immediate bytes of the push opcode op
PushLen(op) == op - PUSH1 + 1

\* the word written 0b<digits> (most significant digit first)
Bin(digits) == {b \in 0..(Len(digits) - 1) : digits[Len(digits) - b] = 1}

\* the word whose bits lo..hi are set
Ones(lo, hi) == lo..hi

Rep(b, n) == [i \in 1..n |-> b]

\* the table of TestBitvec: code and the bitvec newCodeBitVec must return
TestBitvec ==
    << [Code |-> <<>>, Want |-> <<{}, {}>>],
       [Code |-> <<PUSH1, 1, 1, 1>>, Want |-> <<Bin(<<1, 0>>), {}>>],
       [Code |-> <<PUSH2, 1, 1, 1>>, Want |-> <<Bin(<<1, 1, 0>>), {}>>],
       [Code |-> <<PUSH1, PUSH1, PUSH1, PUSH1>>,
        Want |-> <<Bin(<<1, 0, 1, 0>>), {}>>],
       [Code |-> <<0, PUSH1, 0, PUSH1, 0, PUSH1, 0, PUSH1>>,
        Want |-> <<Bin(<<1, 0, 1, 0, 1, 0, 1, 0, 0>>), {}>>],
       [Code |-> Rep(PUSH8, 8) \o <<1, 1, 1>>,
        Want |-> <<Bin(<<1, 1, 1, 1, 1, 1, 1, 1, 0>>), {}>>],
       [Code |-> <<1, 1, 1, 1, 1, PUSH2, 1, 1, 1, 1, 1>>,
        Want |-> <<Bin(<<1, 1, 0, 0, 0, 0, 0, 0>>), {}>>],
       [Code |-> <<PUSH3, 1, 1, 1, PUSH1, 1, 1, 1, 1, 1, 1>>,
        Want |-> <<Bin(<<1, 0, 1, 1, 1, 0>>), {}>>],
       [Code |-> <<1, PUSH8>> \o Rep(1, 10),
        Want |-> <<Bin(<<1, 1, 1, 1, 1, 1, 1, 1, 0, 0>>), {}>>],
       [Code |-> <<PUSH16>> \o Rep(1, 10),
        Want |-> <<Ones(1, 16), {}>>],
       [Code |-> <<PUSH8, 1, 2, 3, 4, 5, 6, 7, 8, PUSH1, 1>>,
        Want |-> <<Bin(<<1, 0, 1, 1, 1, 1, 1, 1, 1, 1, 0>>), {}>>],
       [Code |-> <<PUSH32>>, Want |-> <<Ones(1, 31), Bin(<<1>>)>>],
       [Code |-> Rep(0, 30) \o <<PUSH2, 255, 255>>,
        Want |-> <<{31}, Bin(<<1>>), {}>>],
       [Code |-> Rep(0, 31) \o <<PUSH32>>,
        Want |-> <<{}, Ones(0, 31), {}>>] >>

\* the words of the bitvec allocated for code c: one per 32 bytes begun,
\* and one more that takes the immediates of a push at the end of the code
NumWords(c) == Len(c) \div WordBits + 2

\* make(bitvec, NumWords(c)): all bits clear
EmptyBitvec(c) == [w \in 1..NumWords(c) |-> {}]

\* set the n bits at positions lo .. lo+n-1
SetBits(bv, lo, n) ==
    [w \in 1..Len(bv) |->
        bv[w] \cup {b \in 0..(WordBits - 1) :
                       LET q == (w - 1) * WordBits + b
                       IN  q >= lo /\ q < lo + n}]

\* a scan that marks only the immediate bytes the buffer holds
RECURSIVE ScanClipped(_, _, _)
ScanClipped(bv, c, pc) ==
    IF pc >= Len(c) THEN bv
    ELSE LET op == c[pc + 1]
         IN  IF IsPush(op)
             THEN LET n == PushLen(op)
                      m == IF n < Len(c) - pc - 1 THEN n ELSE Len(c) - pc - 1
                  IN  ScanClipped(SetBits(bv, pc + 1, m), c, pc + 1 + n)
             ELSE ScanClipped(bv, c, pc + 1)

\* a scan that steps over the push opcode but not over its immediates
RECURSIVE ScanByteStep(_, _, _)
ScanByteStep(bv, c, pc) ==
    IF pc >= Len(c) THEN bv
    ELSE LET op == c[pc + 1]
         IN  IF IsPush(op)
             THEN ScanByteStep(SetBits(bv, pc + 1, PushLen(op)), c, pc + 1)
             ELSE ScanByteStep(bv, c, pc + 1)

\* the scan from cursor pc: a push opcode with n immediates marks the n
\* positions after it and moves the cursor by 1+n, any other byte by 1
RECURSIVE Scan(_, _, _)
Scan(bv, c, pc) ==
    IF pc >= Len(c) THEN bv
    ELSE LET op == c[pc + 1]
         IN  IF IsPush(op)
             THEN Scan(SetBits(bv, pc + 1, PushLen(op)), c, pc + 1 + PushLen(op))
             ELSE Scan(bv, c, pc + 1)

\* bits.codeBitvecInternal(code)
codeBitvecInternal(bv, c) == Scan(bv, c, 0)

\* a bitvec without the word that takes a push at the end of the code
newCodeBitVecTight(c) ==
    LET bv == codeBitvecInternal(EmptyBitvec(c), c)
    IN  SubSeq(bv, 1, Len(bv) - 1)

\* newCodeBitVec(code), the Build of the specification
newCodeBitVec(c) == codeBitvecInternal(EmptyBitvec(c), c)

\* a lookup that reads the bit one position lower
IsPushDataBelow(bv, p) ==
    /\ p >= 1
    /\ (p - 1) \div WordBits < Len(bv)
    /\ ((p - 1) % WordBits) \in bv[(p - 1) \div WordBits + 1]

\* a lookup that takes every position past the last word for data
IsPushDataPastEnd(bv, p) ==
    \/ p \div WordBits >= Len(bv)
    \/ (p % WordBits) \in bv[((p \div WordBits) % Len(bv)) + 1]

\* IsPushData(bitmap, position): the bit of the position, false for a
\* position past the last word
IsPushData(bv, p) ==
    /\ p \div WordBits < Len(bv)
    /\ (p % WordBits) \in bv[p \div WordBits + 1]

\* the codes analysed: an optional PUSH32, a run of equal bytes and up to
\* MaxTail further opcodes
Fills == {STOP, JUMPDEST}
Opcodes == {JUMPDEST, PUSH1, PUSH2, PUSH32}

RECURSIVE Tails(_)
Tails(n) ==
    IF n = 0 THEN {<<>>}
    ELSE Tails(n - 1) \cup {Append(t, op) : t \in Tails(n - 1), op \in Opcodes}

Codes ==
    {h \o Rep(f, k) \o t :
        h \in {<<>>, <<PUSH32>>}, f \in Fills, k \in 0..MaxFill, t \in Tails(MaxTail)}
    \cup {TestBitvec[i].Code : i \in 1..Len(TestBitvec)}

InitBitvec ==
    /\ code \in Codes
    /\ bitmap = <<>>
    /\ bpc = "code"
    /\ pos = 0
    /\ isData = FALSE
    /\ st = NewStack /\ ref = NoRef /\ hist = <<>>
    /\ insts = <<>> /\ pool = {} /\ fpc = <<>> /\ held = <<>> /\ twin = <<>>
    /\ CallsIdle
    /\ RecycleIdle

\* the code is analysed once, before it runs
Analyse ==
    /\ bpc = "code"
    /\ bitmap' = newCodeBitVec(code)
    /\ bpc' = "built"
    /\ UNCHANGED <<code, pos, isData, stackVars, poolVars, callVars, recVars>>

\* a position is looked up, inside the bitvec or just past it; a lookup
\* leaves the bitvec as it is, so one lookup per behaviour shows them all
Query ==
    /\ bpc = "built"
    /\ \E p \in 0..(WordBits * Len(bitmap)) :
          /\ pos' = p
          /\ isData' = IsPushData(bitmap, p)
    /\ bpc' = "asked"
    /\ UNCHANGED <<code, bitmap, stackVars, poolVars, callVars, recVars>>

NextBitvec == Analyse \/ Query

SpecBitvec == InitBitvec /\ [][NextBitvec]_vars

\* the positions whose bit is set in bv
BitSet(bv) ==
    {q \in 0..(WordBits * Len(bv) - 1) : (q % WordBits) \in bv[q \div WordBits + 1]}

\* the analysis returns what TestBitvec wants for each code of its table
MeetsTestBitvec ==
    \A i \in 1..Len(TestBitvec) :
        (bpc = "built" /\ code = TestBitvec[i].Code) => bitmap = TestBitvec[i].Want

(***************************************************************************)
(* Claims about swap, dup and calls made with too few elements (SpecStack) *)
(***************************************************************************)
\* C11: for every n in 1..16 and every stack of at least n+1 elements,
\* swapN exchanges the top element with the element n positions below it
\* and changes nothing else: the length and every other element are
\* unchanged.
C11_SwapExchanges ==
    \A k \in 1..Len(hist) :
        (hist[k].op = "swap" /\ Len(hist[k].pre) >= hist[k].n + 1) =>
            LET pre == hist[k].pre
                top == Len(pre)
                n == hist[k].n
            IN  /\ ~hist[k].fault
                /\ n \in 1..16
                /\ Len(Post(k)) = top
                /\ Post(k)[top] = pre[top - n]
                /\ Post(k)[top - n] = pre[top]
                /\ \A i \in 1..top :
                      (i # top /\ i # top - n) => Post(k)[i] = pre[i]

\* swap13 has run on a stack with elements deeper than the exchanged pair
C11_Witness ==
    /\ Len(hist) >= 1
    /\ Did(1, "swap", 13)
    /\ Len(hist[1].pre) > 14
    /\ Post(1) # hist[1].pre

\* C12: for every n with 1 <= n <= length, dup(n) appends as new top a copy
\* of the element n positions from the top (top is position 1), which is the
\* element Back(n-1) designated before the call, also when the append grows
\* the backing storage; the length grows by one and every element already
\* present is unchanged.
C12_DupCopies ==
    \A k \in 1..Len(hist) :
        (hist[k].op = "dup" /\ hist[k].n >= 1 /\ hist[k].n <= Len(hist[k].pre)) =>
            LET pre == hist[k].pre
                n == hist[k].n
            IN  /\ ~hist[k].fault
                /\ Post(k) = Append(pre, FromTop(pre, n - 1))
                /\ (k > 1 /\ Did(k - 1, "Back", n - 1)) =>
                       FromTop(Post(k), 0) = pre[hist[k - 1].ref.idx + 1]

\* Back(n-1) and then dup(n) have run on a stack whose length was its
\* capacity, so that the append moved the elements to a new array
C12_Witness ==
    /\ Len(hist) = 2
    /\ hist[1].op = "Back" /\ ~hist[1].fault
    /\ Did(2, "dup", hist[1].n + 1)
    /\ hist[2].n > 1
    /\ Len(hist[2].pre) = InitCap
    /\ hist[2].ptr # hist[1].ptr

\* the call recorded at k was made with too few elements for it
TooShallow(k) ==
    LET d == Len(hist[k].pre)
        n == hist[k].n
    IN  CASE hist[k].op = "pop" -> d < n
          [] hist[k].op = "popPeek" -> d < n + 1
          [] hist[k].op = "swap" -> d < n + 1
          [] hist[k].op = "dup" -> n = 0 \/ n > d
          [] hist[k].op = "peek" -> d = 0
          [] hist[k].op = "Back" -> n >= d
          [] OTHER -> FALSE

\* C19: a call made with insufficient depth (popN with fewer than N
\* elements, a pop-and-peek of k with fewer than k+1, swapN with fewer than
\* n+1, dup(n) with n = 0 or n > length, peek on an empty stack, Back(n)
\* with n >= length) always ends in an out-of-range fault, returns no value
\* and no pointer, and leaves the length and the elements unchanged.
C19_ShallowFaults ==
    \A k \in 1..Len(hist) :
        TooShallow(k) =>
            /\ hist[k].fault
            /\ hist[k].ret = <<>>
            /\ hist[k].ref = NoRef
            /\ Post(k) = hist[k].pre
            /\ k = Len(hist)

\* dup(0) has faulted on a non-empty stack whose storage beyond the length
\* holds a value popped earlier
C19_Witness ==
    /\ Len(hist) >= 1
    /\ Last.op = "dup" /\ Last.n = 0 /\ Last.fault
    /\ st.len >= 1 /\ st.len < Len(st.arr)
    /\ st.arr[st.len + 1] = MaxUint256
    /\ Data(st) = Last.pre

(***************************************************************************)
(* Claims about the jump-destination analysis (SpecBitvec)                 *)
(***************************************************************************)
\* a direct linear decode of c from position pc: the positions at which an
\* instruction starts
RECURSIVE InstrStarts(_, _)
InstrStarts(c, pc) ==
    IF pc >= Len(c) THEN {}
    ELSE {pc} \cup InstrStarts(c, pc + 1 + (IF IsPush(c[pc + 1])
                                           THEN PushLen(c[pc + 1]) ELSE 0))

\* the push instructions of c
Pushes(c) == {p \in InstrStarts(c, 0) : IsPush(c[p + 1])}

\* the positions p+1 .. p+n of the n immediates of the push at p
Immediates(c, p) == (p + 1)..(p + PushLen(c[p + 1]))

\* the immediates of the push at p that the buffer holds
Present(c, p) == {q \in Immediates(c, p) : q < Len(c)}

\* C13 as claimed: for every push decoded at p with n immediates exactly
\* the bits p+1 .. p+min(n, codeLen-p-1) are set, so that no bit at a
\* position >= codeLen is ever set in the bitmap.
C13_OnlyInsideBuffer ==
    bpc = "built" =>
        /\ BitSet(bitmap) = UNION {Present(code, p) : p \in Pushes(code)}
        /\ \A q \in BitSet(bitmap) : q < Len(code)

\* C13 amended: for every push decoded at p with n immediates all of the
\* bits p+1 .. p+n are set and no other bit is; the bits of the immediates
\* that a push at the end of the buffer lacks lie at positions >= codeLen,
\* below codeLen + 32 and inside the bitmap.
C13_AllImmediates ==
    bpc = "built" =>
        /\ BitSet(bitmap) = UNION {Immediates(code, p) : p \in Pushes(code)}
        /\ \A q \in BitSet(bitmap) :
              q < Len(code) + WordBits /\ q < WordBits * Len(bitmap)

\* a code whose last push lacks immediates has been analysed, the lacking
\* immediates lie in another word than the push, and their bits are set
C13_Witness ==
    /\ bpc = "built"
    /\ \E p \in Pushes(code) :
          /\ p + PushLen(code[p + 1]) >= Len(code)
          /\ (p + PushLen(code[p + 1])) \div WordBits > p \div WordBits
          /\ Immediates(code, p) \subseteq BitSet(bitmap)
          /\ p > 0

\* C14: a position p < codeLen is a legal jump destination, i.e. code[p] is
\* JUMPDEST and IsPushData(Build(code), p) is false, exactly when a direct
\* linear decode of the code finds a JUMPDEST instruction at p: a JUMPDEST
\* byte among the immediates of a decoded push is never legal and one
\* decoded as an instruction always is.
C14_JumpdestByDecode ==
    (bpc = "asked" /\ pos < Len(code)) =>
        /\ (code[pos + 1] = JUMPDEST /\ ~isData) <=>
              (code[pos + 1] = JUMPDEST /\ pos \in InstrStarts(code, 0))
        /\ isData <=> \E p \in Pushes(code) : pos \in Immediates(code, p)

\* a JUMPDEST byte in the second word that is an immediate of a push in the
\* first has been looked up, in a code that also has a JUMPDEST instruction
C14_Witness ==
    /\ bpc = "asked"
    /\ pos < Len(code) /\ pos >= WordBits
    /\ code[pos + 1] = JUMPDEST /\ isData
    /\ \E q \in InstrStarts(code, 0) : code[q + 1] = JUMPDEST

FourPush1 == <<PUSH1, PUSH1, PUSH1, PUSH1>>

\* C15 as claimed: for the code of four PUSH1 bytes and nothing else the
\* analysis marks bits 1, 3, 5 and 7.
C15_Bits1357 ==
    (bpc = "built" /\ code = FourPush1) => BitSet(bitmap) = {1, 3, 5, 7}

\* C15 amended: for the code of four PUSH1 bytes and nothing else the
\* analysis marks bits 1 and 3 and no other, as TestBitvec wants.
C15_Bits13 ==
    (bpc = "built" /\ code = FourPush1) =>
        /\ BitSet(bitmap) = {1, 3}
        /\ \E i \in 1..Len(TestBitvec) :
              TestBitvec[i].Code = code /\ TestBitvec[i].Want = bitmap

\* the code of four PUSH1 bytes has been analysed and bit 3 is set
C15_Witness ==
    bpc = "built" /\ code = FourPush1 /\ 3 \in BitSet(bitmap)

\* C16 as claimed: IsPushData(Build(code), position) is false for every
\* position at or beyond the length of the code, also when the last push
\* lacks immediates.
C16_FalseBeyondCode ==
    (bpc = "asked" /\ pos >= Len(code)) => ~isData

\* C16 amended: for a position at or beyond the length of the code
\* IsPushData(Build(code), position) is true exactly when the position is
\* one of the p+1 .. p+n of a push decoded at p whose n immediates the end of
\* the buffer cuts off, and false for every other such position, those past
\* the last word of the bitmap included.
C16_FalseBeyondImmediates ==
    (bpc = "asked" /\ pos >= Len(code)) =>
        /\ isData <=> \E p \in Pushes(code) : pos \in Immediates(code, p)
        /\ pos >= Len(code) + WordBits => ~isData
        /\ pos >= WordBits * Len(bitmap) => ~isData

\* after a code whose last push lacks immediates, a position beyond the
\* code, in the second word or later, got the answer true
C16_Witness ==
    /\ bpc = "asked"
    /\ Len(code) > 1 /\ IsPush(code[Len(code)])
    /\ pos >= Len(code) /\ pos >= WordBits
    /\ isData

\* C17: for every code, the empty one included, the bitmap has at least two
\* words, and the bitmap of the empty code has no bit set.
C17_TwoWords ==
    bpc # "code" =>
        /\ Len(bitmap) >= 2
        /\ code = <<>> => \A w \in 1..Len(bitmap) : bitmap[w] = {}

\* the empty code has been analysed
C17_Witness ==
    bpc = "built" /\ code = <<>> /\ bitmap = <<{}, {}>>

(***************************************************************************)
(* Claims about the context and the goroutine of DoMulticall               *)
(***************************************************************************)
\* DoMulticall has returned and its goroutine has finished
AllOver == mpc \in {"returned", "done"} /\ wpc \in {"ended", "panicked"}

\* the EVMs on which Cancel was called
Cancelled == {cancelled[k] : k \in 1..Len(cancelled)}

\* C18: if ctx becomes done between the start of the goroutine and the end
\* of the last call, every EVM that executes a call at or after that moment
\* has Cancel called on it, under every interleaving of the goroutine with
\* the loop's assignments to evm.
C18_LateEVMsCancelled ==
    AllOver => late \subseteq Cancelled

\* the goroutine has started and not yet finished
Watching == wpc \in {"wait", "cancel"}

\* C20: the goroutine does not outlive the request indefinitely: on every
\* exit of DoMulticall taken after its start the deferred cancel has made
\* ctx done, the goroutine eventually wakes, calls Cancel at most once, on
\* the EVM last assigned to evm (on none if evm is nil), and terminates.
C20_WatcherEndsCleanly ==
    /\ [](mpc \in {"returned", "done", "panicked"} /\ wpc # "none" => ctxDone)
    /\ [](Len(cancelled) <= 1 /\ wpc # "panicked")
    /\ [][cancelled' # cancelled => cancelled' = <<evm>>]_vars
    /\ Watching ~> (wpc = "ended")

====
